---- MODULE Spec2Model ----
(***************************************************************************)
(* Model of the vehicle-registration dashboards (dashboard.py and          *)
(* dashboard2.py): load_and_prepare_data walks a directory tree, loads the *)
(* accepted CSV files, reshapes them wide -> long; the main script filters *)
(* the dataset and computes the key metrics.                               *)
(*                                                                         *)
(* Strings that the code parses (file and folder names) are sequences of   *)
(* tokens, e.g. "2023-JAN.csv" is <<"2023", "-", "JAN", ".csv">>; the      *)
(* tokens are prefix-free, so equality of token sequences is equality of   *)
(* the strings.  A cell of a data frame is a tagged value (number, string  *)
(* or NaN).  A float that may be infinite or NaN is a fraction num/den     *)
(* with den = 0 standing for inf/NaN.                                      *)
(***************************************************************************)
EXTENDS Integers, Sequences, FiniteSets, TLC

\* Largest number of files a modelled directory tree holds.
MaxFiles == 2

\* Largest number of rows of a table handed to the ranking on its own.
MaxRows == 3

\* Largest n tried when the ranking is applied on its own.
MaxN == 2

\* The months tried in the month widget: January (its prior month is in the
\* previous year), December (its prior month is in the same year) and
\* February (no file of the modelled trees is for it).
SelectableMonths == {1, 2, 12}

(***************************************************************************)
(* Data-frame cells                                                        *)
(***************************************************************************)
Num(n) == [k |-> "num", n |-> n, s |-> ""]
Str(s) == [k |-> "str", n |-> 0, s |-> s]
NaN == [k |-> "nan", n |-> 0, s |-> ""]

CategoryColumns == <<"2W", "3W", "4W">>
AllColumns == {"Maker", "2W", "3W", "4W"}

Row(m, a, b, c) ==
    [col \in AllColumns |->
        CASE col = "Maker" -> m
          [] col = "2W" -> a
          [] col = "3W" -> b
          [] OTHER -> c]

\* Contents of a CSV file as pd.read_csv sees it: readable or not (OSError),
\* parseable or not (ParserError, a ValueError), its columns and its rows.
\* A cell of a column the file does not have is NaN (what pd.concat fills in).
Content(readable, parse, cols, rows) ==
    [readable |-> readable, parse |-> parse, cols |-> cols, rows |-> rows]

Contents ==
    { Content(TRUE, TRUE, AllColumns, <<Row(Str("X"), Num(2), Num(0), Num(1))>>),
      Content(TRUE, TRUE, AllColumns, <<Row(Str("X"), Num(1), Num(1), Num(0)),
                                        Row(Str("Y"), Num(3), Num(-1), Num(0))>>),
      \* the same manufacturer on two rows
      Content(TRUE, TRUE, AllColumns, <<Row(Str("X"), Num(1), Num(0), Num(0)),
                                        Row(Str("X"), Num(1), Num(0), Num(0))>>),
      \* a row whose manufacturer field is absent
      Content(TRUE, TRUE, AllColumns, <<Row(Str("Y"), Num(1), Num(0), Num(0)),
                                        Row(NaN, Num(0), Num(2), Num(0))>>),
      \* no manufacturer column
      Content(TRUE, TRUE, {"2W", "3W", "4W"}, <<Row(NaN, Num(2), Num(0), Num(1))>>),
      \* no 3W column
      Content(TRUE, TRUE, {"Maker", "2W", "4W"}, <<Row(Str("X"), Num(2), NaN, Num(1))>>),
      \* a non-numeric count
      Content(TRUE, TRUE, AllColumns, <<Row(Str("X"), Str("abc"), Num(0), Num(1))>>),
      \* malformed CSV
      Content(TRUE, FALSE, {}, <<>>),
      \* file that cannot be opened
      Content(FALSE, FALSE, {}, <<>>) }

(***************************************************************************)
(* File names                                                              *)
(***************************************************************************)
DigitTokens == {"2023", "2024"}
DigitValue(t) == IF t = "2023" THEN 2023 ELSE 2024

MonthAbbr == <<"JAN", "FEB", "MAR", "APR", "MAY", "JUN",
               "JUL", "AUG", "SEP", "OCT", "NOV", "DEC">>
ThreeLetterTokens == {"JAN", "jan", "DEC", "XYZ", "abc"}

\* str.upper() on one token
Upper(t) == CASE t = "jan" -> "JAN" [] t = "abc" -> "ABC" [] OTHER -> t

File(sub, dir, name) == [sub |-> sub, dir |-> dir, name |-> name]

\* The files a modelled tree is made of: <sub>/<dir>/<name>.
Universe ==
    { File("a", <<"2023">>, <<"2023", "-", "JAN", ".csv">>),
      File("b", <<"2023">>, <<"2023", "-", "JAN", ".csv">>),
      File("a", <<"2023">>, <<"2023", "-", "jan", ".csv">>),
      File("a", <<"2023">>, <<"2023", "-", "DEC", ".csv">>),
      File("a", <<"2024">>, <<"2024", "-", "JAN", ".csv">>),
      File("a", <<"2023">>, <<"2024", "-", "JAN", ".csv">>),
      File("a", <<"2023">>, <<"2023", "-", "XYZ", ".csv">>),
      File("a", <<"2023">>, <<"2023", "-", "JAN", "-", "JAN", ".csv">>),
      File("a", <<"2023">>, <<"2023", "JAN", ".csv">>),
      File("a", <<"2023">>, <<"2023", "-", "JAN", ".txt">>),
      File("a", <<"2023">>, <<"2023", "-", "JAN", ".csv", ".csv">>),
      File("a", <<"abc">>, <<"abc", "-", "JAN", ".csv">>) }

\* file.endswith('.csv') and '-' in file
IsCandidate(name) ==
    /\ Len(name) > 0
    /\ name[Len(name)] = ".csv"
    /\ \E i \in 1..Len(name) : name[i] = "-"

\* file.replace('.csv', ''): every occurrence is removed
RemoveCsv(name) == SelectSeq(name, LAMBDA t : t # ".csv")

\* str.split('-')
RECURSIVE SplitFrom(_, _, _)
SplitFrom(name, i, cur) ==
    IF i > Len(name) THEN <<cur>>
    ELSE IF name[i] = "-" THEN <<cur>> \o SplitFrom(name, i + 1, <<>>)
    ELSE SplitFrom(name, i + 1, Append(cur, name[i]))

Split(name) == SplitFrom(name, 1, <<>>)

\* datetime.strptime(s, "%b").month; 0 stands for ValueError
MonthNumber(s) ==
    IF Len(s) = 1 /\ \E m \in 1..12 : MonthAbbr[m] = s[1]
    THEN CHOOSE m \in 1..12 : MonthAbbr[m] = s[1]
    ELSE 0

UpperStr(s) == [i \in 1..Len(s) |-> Upper(s[i])]

\* int(s); -1 stands for ValueError
RECURSIVE IntFrom(_, _, _)
IntFrom(s, i, acc) ==
    IF i > Len(s) THEN acc
    ELSE IF s[i] \in DigitTokens THEN IntFrom(s, i + 1, acc * 10000 + DigitValue(s[i]))
    ELSE -1

IntOf(s) == IF Len(s) = 0 THEN -1 ELSE IntFrom(s, 1, 0)

\* One iteration of the inner loop (lines 34-48) on file f with contents c:
\* whether the path is logged, the frames appended to all_data and the
\* messages shown (st.warning on ValueError, st.error on any other exception).
Outcome(logged, frames, msgs) == [logged |-> logged, frames |-> frames, msgs |-> msgs]

ProcessFile(f, c) ==
    LET parts == Split(RemoveCsv(f.name))
        warning == <<[kind |-> "warning", file |-> f.name]>>
        error == <<[kind |-> "error", file |-> f.name]>>
    IN  IF ~IsCandidate(f.name) THEN Outcome(FALSE, <<>>, <<>>)
        ELSE IF Len(parts) # 2 THEN Outcome(TRUE, <<>>, warning)
        ELSE LET year_str == parts[1]
                 month_str == parts[2]
                 month == MonthNumber(UpperStr(month_str))
             IN  IF f.dir # year_str THEN Outcome(TRUE, <<>>, <<>>)
                 ELSE IF month = 0 THEN Outcome(TRUE, <<>>, warning)
                 ELSE IF ~c.readable THEN Outcome(TRUE, <<>>, error)
                 ELSE IF ~c.parse THEN Outcome(TRUE, <<>>, warning)
                 ELSE IF IntOf(year_str) = -1 THEN Outcome(TRUE, <<>>, warning)
                 ELSE Outcome(TRUE,
                              <<[cols |-> c.cols, rows |-> c.rows,
                                 year |-> IntOf(year_str), month |-> month]>>,
                              <<>>)

(***************************************************************************)
(* Reshaping (lines 63-78)                                                 *)
(***************************************************************************)
\* pd.concat(all_data, ignore_index=True): the rows of every frame in order,
\* each with the year and month of its frame; the columns are the union.
RECURSIVE ConcatRows(_)
ConcatRows(frames) ==
    IF frames = <<>> THEN <<>>
    ELSE LET fr == Head(frames)
         IN  [j \in 1..Len(fr.rows) |->
                 [cells |-> fr.rows[j], year |-> fr.year, month |-> fr.month]]
             \o ConcatRows(Tail(frames))

ConcatCols(frames) == UNION {frames[i].cols : i \in 1..Len(frames)}

\* DataFrame.melt raises KeyError when an id or value column is absent.
MeltRaises(frames) ==
    \/ "Maker" \notin ConcatCols(frames)
    \/ \E i \in 1..Len(CategoryColumns) : CategoryColumns[i] \notin ConcatCols(frames)

\* melt: one long row per value column and per wide row, column by column
MeltColumn(rows, cat) ==
    [j \in 1..Len(rows) |->
        [Maker |-> rows[j].cells["Maker"], year |-> rows[j].year,
         month |-> rows[j].month, Category |-> cat,
         Registrations |-> rows[j].cells[cat]]]

Melt(rows) ==
    MeltColumn(rows, CategoryColumns[1]) \o MeltColumn(rows, CategoryColumns[2])
        \o MeltColumn(rows, CategoryColumns[3])

\* melted_df['Registrations'] > 0 raises TypeError on a str cell
CompareRaises(melted) ==
    \E j \in 1..Len(melted) : melted[j].Registrations.k = "str"

IsPositiveOrZero(cell) == cell.k = "num" /\ cell.n >= 0

\* one cell of the comparison: NaN > 0 is False
IsPositive(cell) == cell.k = "num" /\ cell.n > 0

QuarterOfFloor(month) == (month \div 3) + 1

\* Series.dt.quarter
QuarterOf(month) == ((month - 1) \div 3) + 1

\* lines 72-74: keep the positive rows, add Date and QuarterValue
Finalize(r) ==
    [Maker |-> r.Maker, year |-> r.year, month |-> r.month,
     Category |-> r.Category, Registrations |-> r.Registrations.n,
     Date |-> [year |-> r.year, month |-> r.month, day |-> 1],
     QuarterValue |-> QuarterOf(r.month)]

Prepare(frames) ==
    LET kept == SelectSeq(Melt(ConcatRows(frames)),
                          LAMBDA r : IsPositive(r.Registrations))
    IN  [j \in 1..Len(kept) |-> Finalize(kept[j])]

\* pd.concat of an empty list raises ValueError
LoadResultNoEmptyCheck(frames) ==
    IF frames = <<>> \/ MeltRaises(frames)
    THEN [pc |-> "raised", exc |-> IF frames = <<>> THEN "ValueError" ELSE "KeyError",
          data |-> <<>>]
    ELSE IF CompareRaises(Melt(ConcatRows(frames)))
    THEN [pc |-> "raised", exc |-> "TypeError", data |-> <<>>]
    ELSE [pc |-> "returned", exc |-> "none", data |-> Prepare(frames)]

\* lines 59-78: how the function ends and what it returns
LoadResult(frames) ==
    IF frames = <<>>
    THEN [pc |-> "returned", exc |-> "none", data |-> <<>>]
    ELSE IF MeltRaises(frames)
    THEN [pc |-> "raised", exc |-> "KeyError", data |-> <<>>]
    ELSE IF CompareRaises(Melt(ConcatRows(frames)))
    THEN [pc |-> "raised", exc |-> "TypeError", data |-> <<>>]
    ELSE [pc |-> "returned", exc |-> "none", data |-> Prepare(frames)]

(***************************************************************************)
(* Main script: helpers                                                    *)
(***************************************************************************)
RECURSIVE SumRegistrations(_)
\* df['Registrations'].sum(); the empty sum is 0
SumRegistrations(df) ==
    IF df = <<>> THEN 0 ELSE Head(df).Registrations + SumRegistrations(Tail(df))

Years(df) == {df[j].year : j \in 1..Len(df)}
Categories(df) == {df[j].Category : j \in 1..Len(df)}
Makers(df) == {df[j].Maker : j \in 1..Len(df)}

Min(S) == CHOOSE x \in S : \A y \in S : x <= y
Max(S) == CHOOSE x \in S : \A y \in S : x >= y

\* sorted(data['Maker'].unique()) compares a float NaN with a str: TypeError
SortMakersRaises(df) ==
    /\ \E m \in Makers(df) : m.k = "nan"
    /\ \E m \in Makers(df) : m.k = "str"

\* a float that may be inf/NaN: num/den, den = 0 for inf and NaN
Frac(num, den) == [num |-> num, den |-> den]
Zero == Frac(0, 1)

GrowthUnguarded(current, prior) == Frac((current - prior) * 100, prior)

\* ((current - prior) / prior) * 100 if prior else 0
Growth(current, prior) ==
    IF prior # 0 THEN Frac((current - prior) * 100, prior) ELSE Zero

\* pd.Period(date, freq='Q') as its ordinal: quarters are consecutive integers
QuarterPeriod(year, quarter) == year * 4 + (quarter - 1)
PeriodOf(r) == QuarterPeriod(r.Date.year, QuarterOf(r.Date.month))

\* line 75 of dashboard.py: the label "Q<n>" (here n); of dashboard2.py: the period
QuarterLabel(r) == QuarterOf(r.Date.month)

\* Period.year and Period.quarter of a quarterly period
PeriodRecord(p) == [year |-> p \div 4, unit |-> (p % 4) + 1]

PrevMonthDateNoCarry(year, month) ==
    IF month = 1 THEN [year |-> year, month |-> 12, day |-> 1]
    ELSE [year |-> year, month |-> month - 1, day |-> 1]

\* pd.to_datetime(f"{year}-{month}-01") - pd.DateOffset(months=1)
PrevMonthDate(year, month) ==
    IF month = 1 THEN [year |-> year - 1, month |-> 12, day |-> 1]
    ELSE [year |-> year, month |-> month - 1, day |-> 1]

RangeFilterExclusive(df, years, cats, makers) ==
    SelectSeq(df, LAMBDA r : /\ r.year >= years[1]
                             /\ r.year < years[2]
                             /\ r.Category \in cats
                             /\ r.Maker \in makers)

\* lines 148-153 (152-157): year range, categories, manufacturers
RangeFilter(df, years, cats, makers) ==
    SelectSeq(df, LAMBDA r : /\ r.year >= years[1]
                             /\ r.year <= years[2]
                             /\ r.Category \in cats
                             /\ r.Maker \in makers)

\* the pin applied by position instead of by mask: the first row is lost
PinFilterByPosition(df, v, type, month, quarter) ==
    LET kept == IF type = "Monthly" THEN SelectSeq(df, LAMBDA r : r.month = month)
                ELSE IF type = "Quarterly" /\ v = 2
                     THEN SelectSeq(df, LAMBDA r : r.QuarterValue = quarter)
                ELSE df
    IN  IF type = "Overall Trend" \/ kept = <<>> THEN kept ELSE Tail(kept)

\* lines 155-156 of dashboard.py, 159-162 of dashboard2.py
PinFilter(df, v, type, month, quarter) ==
    IF type = "Monthly" THEN SelectSeq(df, LAMBDA r : r.month = month)
    ELSE IF type = "Quarterly" /\ v = 2
         THEN SelectSeq(df, LAMBDA r : r.QuarterValue = quarter)
    ELSE df

FilteredData(df, v, type, years, month, quarter, cats, makers) ==
    PinFilter(RangeFilter(df, years, cats, makers), v, type, month, quarter)

\* data[(year == y) & (month == m) & category isin & maker isin]
MonthData(df, year, month, cats, makers) ==
    SelectSeq(df, LAMBDA r : /\ r.year = year /\ r.month = month
                             /\ r.Category \in cats /\ r.Maker \in makers)

\* data[(Quarter == period) & category isin & maker isin]
QuarterData(df, period, cats, makers) ==
    SelectSeq(df, LAMBDA r : /\ PeriodOf(r) = period
                             /\ r.Category \in cats /\ r.Maker \in makers)

\* df[df period == period]
InPeriod(df, period) == SelectSeq(df, LAMBDA r : PeriodOf(r) = period)

\* filtered_data.groupby('Quarter')['Registrations'].sum().get(q, 0)
QuarterSum(df, q) == SumRegistrations(SelectSeq(df, LAMBDA r : QuarterLabel(r) = q))

\* quarterly_summary.idxmax(): the first label with the largest sum
BestQuarter(df) ==
    LET present == {QuarterLabel(df[j]) : j \in 1..Len(df)}
        best == {q \in present : \A p \in present : QuarterSum(df, q) >= QuarterSum(df, p)}
    IN  IF present = {} THEN 0 ELSE Min(best)

NoMetrics ==
    [total |-> 0, current |-> 0, prior |-> 0, prior_year |-> 0,
     growth |-> Zero, yoy_growth |-> Zero, latest_quarter_period |-> 0,
     best_quarter |-> 0, intra_year_growth |-> Zero,
     prior_period |-> [year |-> 0, unit |-> 0],
     prior_year_period |-> [year |-> 0, unit |-> 0]]

\* lines 162-186 (169-193): Monthly
MonthlyMetrics(df, fd, year, month, cats, makers) ==
    LET current_registrations == SumRegistrations(fd)
        prev_month_date == PrevMonthDate(year, month)
        prev_month_registrations ==
            SumRegistrations(MonthData(df, prev_month_date.year, prev_month_date.month,
                                       cats, makers))
        prev_year_registrations ==
            SumRegistrations(MonthData(df, year - 1, month, cats, makers))
    IN  [NoMetrics EXCEPT
            !.total = current_registrations,
            !.current = current_registrations,
            !.prior = prev_month_registrations,
            !.prior_year = prev_year_registrations,
            !.prior_period = [year |-> prev_month_date.year,
                              unit |-> prev_month_date.month],
            !.prior_year_period = [year |-> year - 1, unit |-> month],
            !.growth = Growth(current_registrations, prev_month_registrations),
            !.yoy_growth = Growth(current_registrations, prev_year_registrations)]

\* lines 188-204 of dashboard.py: Quarterly breakdown of one year
QuarterlyBreakdown(fd) ==
    LET q1_regs == QuarterSum(fd, 1)
        q4_regs == QuarterSum(fd, 4)
    IN  [NoMetrics EXCEPT
            !.total = SumRegistrations(fd),
            !.best_quarter = BestQuarter(fd),
            !.intra_year_growth = Growth(q4_regs, q1_regs)]

\* lines 195-222 of dashboard2.py: Quarterly
QuarterlyMetrics(df, fd, year, quarter, cats, makers) ==
    LET current_registrations == SumRegistrations(fd)
        current_quarter_period == QuarterPeriod(year, quarter)
        prev_quarter_period == current_quarter_period - 1
        prev_year_quarter_period == current_quarter_period - 4
        prev_quarter_registrations ==
            SumRegistrations(QuarterData(df, prev_quarter_period, cats, makers))
        prev_year_quarter_registrations ==
            SumRegistrations(QuarterData(df, prev_year_quarter_period, cats, makers))
    IN  [NoMetrics EXCEPT
            !.total = current_registrations,
            !.current = current_registrations,
            !.prior_period = PeriodRecord(prev_quarter_period),
            !.prior_year_period = PeriodRecord(prev_year_quarter_period),
            !.prior = prev_quarter_registrations,
            !.prior_year = prev_year_quarter_registrations,
            !.growth = Growth(current_registrations, prev_quarter_registrations),
            !.yoy_growth = Growth(current_registrations, prev_year_quarter_registrations)]

EarliestQuarterPeriod(fd) == Min({PeriodOf(fd[j]) : j \in 1..Len(fd)})

\* pd.Period(filtered_data['Date'].max(), freq='Q') (filtered_data['Quarter'].max())
LatestQuarterPeriod(fd) == Max({PeriodOf(fd[j]) : j \in 1..Len(fd)})

\* lines 207-234 (224-251): Overall Trend; every lookup is in filtered_data
OverallMetrics(fd) ==
    LET latest_quarter_period == LatestQuarterPeriod(fd)
        prev_quarter_period == latest_quarter_period - 1
        prev_year_quarter_period == latest_quarter_period - 4
        current_quarter_registrations ==
            SumRegistrations(InPeriod(fd, latest_quarter_period))
        prev_quarter_registrations ==
            SumRegistrations(InPeriod(fd, prev_quarter_period))
        prev_year_quarter_registrations ==
            SumRegistrations(InPeriod(fd, prev_year_quarter_period))
    IN  [NoMetrics EXCEPT
            !.prior_period = PeriodRecord(prev_quarter_period),
            !.prior_year_period = PeriodRecord(prev_year_quarter_period),
            !.total = SumRegistrations(fd),
            !.current = current_quarter_registrations,
            !.prior = prev_quarter_registrations,
            !.prior_year = prev_year_quarter_registrations,
            !.latest_quarter_period = latest_quarter_period,
            !.growth = Growth(current_quarter_registrations, prev_quarter_registrations),
            !.yoy_growth = Growth(current_quarter_registrations,
                                  prev_year_quarter_registrations)]

KeyMetrics(df, fd, v, type, years, month, quarter, cats, makers) ==
    IF type = "Monthly" THEN MonthlyMetrics(df, fd, years[1], month, cats, makers)
    ELSE IF type = "Quarterly"
         THEN IF v = 1 THEN QuarterlyBreakdown(fd)
              ELSE QuarterlyMetrics(df, fd, years[1], quarter, cats, makers)
    ELSE OverallMetrics(fd)

(***************************************************************************)
(* Main script: rankings                                                   *)
(***************************************************************************)
\* n of nlargest(10) (lines 139 and 281)
TopN == 10

\* the order of str on the manufacturer names of the model
NameRank(name) ==
    CASE name = "A" -> 1 [] name = "B" -> 2 [] name = "C" -> 3
      [] name = "X" -> 24 [] name = "Y" -> 25 [] OTHER -> 26

\* the group keys of groupby('Maker'): NaN keys are dropped
MakerNames(df) == {df[j].Maker.s : j \in {i \in 1..Len(df) : df[i].Maker.k = "str"}}

RECURSIVE SortedNames(_)
\* the keys in ascending order (groupby sorts its keys)
SortedNames(S) ==
    IF S = {} THEN <<>>
    ELSE LET m == CHOOSE x \in S : \A y \in S : NameRank(x) <= NameRank(y)
         IN  <<m>> \o SortedNames(S \ {m})

\* the keys in order of first appearance (groupby(sort=False))
AppearanceNames(df) ==
    LET firsts == SelectSeq([j \in 1..Len(df) |-> j],
                     LAMBDA j : /\ df[j].Maker.k = "str"
                                /\ \A i \in 1..(j - 1) : df[i].Maker # df[j].Maker)
    IN  [i \in 1..Len(firsts) |-> df[firsts[i]].Maker.s]

MakerSum(df, name) ==
    SumRegistrations(SelectSeq(df, LAMBDA r : r.Maker = Str(name)))

GroupBySumUnsorted(df) ==
    LET keys == AppearanceNames(df)
    IN  [i \in 1..Len(keys) |->
            [Maker |-> keys[i], Registrations |-> MakerSum(df, keys[i])]]

\* df.groupby('Maker')['Registrations'].sum()
GroupBySum(df) ==
    LET keys == SortedNames(MakerNames(df))
    IN  [i \in 1..Len(keys) |->
            [Maker |-> keys[i], Registrations |-> MakerSum(df, keys[i])]]

RECURSIVE NLargest(_, _)
\* Series.nlargest(n) / DataFrame.nlargest(n, 'Registrations'), keep='first':
\* the largest first, equal values in their order of occurrence
NLargest(series, n) ==
    IF n = 0 \/ series = <<>> THEN <<>>
    ELSE LET i == CHOOSE k \in 1..Len(series) :
                    /\ \A j \in 1..Len(series) :
                          series[j].Registrations <= series[k].Registrations
                    /\ \A j \in 1..(k - 1) :
                          series[j].Registrations < series[k].Registrations
         IN  <<series[i]>>
                 \o NLargest(SubSeq(series, 1, i - 1)
                                \o SubSeq(series, i + 1, Len(series)), n - 1)

\* line 139: .nlargest(10).index.tolist()
IndexList(series) == [i \in 1..Len(series) |-> series[i].Maker]

(***************************************************************************)
(* dashboard.py: quarterly YoY comparison (lines 341-411)                  *)
(***************************************************************************)
\* line 348: the years whose previous year is in the data
AvailableYearsForYoY(df) == {y \in Years(df) : (y - 1) \in Years(df)}

\* lines 365-370: one year's rows of the quarter, in the selected categories
YearQuarterData(df, year, quarter, cats) ==
    SelectSeq(df, LAMBDA r : /\ r.year = year
                             /\ QuarterLabel(r) = quarter
                             /\ r.Category \in cats)

\* Series.get of a group sum, NaN filled with 0 (line 377)
SalesOf(series, name) ==
    IF \E i \in 1..Len(series) : series[i].Maker = name
    THEN series[CHOOSE i \in 1..Len(series) : series[i].Maker = name].Registrations
    ELSE 0

YoYGrowthRaw(current, previous) == Frac((current - previous) * 100, previous)

\* lines 380-381: the quotient, an infinite one replaced by 0
YoYGrowth(current, previous) ==
    LET g == Frac((current - previous) * 100, previous)
    IN  IF g.den = 0 /\ g.num # 0 THEN Zero ELSE g

\* lines 373-382: one row per manufacturer of either quarter, index sorted;
\* rows whose growth is NaN (0/0) are dropped
GrowthDf(df, year, quarter, cats) ==
    LET previous_sales == GroupBySum(YearQuarterData(df, year - 1, quarter, cats))
        current_sales == GroupBySum(YearQuarterData(df, year, quarter, cats))
        index == SortedNames({previous_sales[i].Maker : i \in 1..Len(previous_sales)}
                     \cup {current_sales[i].Maker : i \in 1..Len(current_sales)})
        rows == [i \in 1..Len(index) |->
                    [Maker |-> index[i],
                     PreviousSales |-> SalesOf(previous_sales, index[i]),
                     CurrentSales |-> SalesOf(current_sales, index[i]),
                     YoY_Growth |-> YoYGrowth(SalesOf(current_sales, index[i]),
                                              SalesOf(previous_sales, index[i]))]]
    IN  SelectSeq(rows, LAMBDA r : ~(r.YoY_Growth.den = 0 /\ r.YoY_Growth.num = 0))

\* a >= b for two finite fractions with positive or negative denominators
FracGE(a, b) ==
    IF (a.den > 0) = (b.den > 0) THEN a.num * b.den >= b.num * a.den
    ELSE a.num * b.den <= b.num * a.den

\* sort_values(by='YoY_Growth_%', ascending=False): the default sort is not
\* stable, so rows with equal growth may come in any order
SortValuesDescending(rows) ==
    LET n == Len(rows)
        perms == {q \in [1..n -> 1..n] : \A i, j \in 1..n : i # j => q[i] # q[j]}
    IN  {[i \in 1..n |-> rows[q[i]]] :
            q \in {q \in perms : \A i \in 1..(n - 1) :
                       FracGE(rows[q[i]].YoY_Growth, rows[q[i + 1]].YoY_Growth)}}

\* head(5)
HeadRows == 5
Head5(rows) == SubSeq(rows, 1, IF Len(rows) < HeadRows THEN Len(rows) ELSE HeadRows)

FinalDfUnsorted(growth, mode, makers) ==
    IF mode = "Top 5 Growth Companies"
    THEN {Head5(sorted) : sorted \in SortValuesDescending(growth)}
    ELSE {SelectSeq(growth, LAMBDA r : Str(r.Maker) \in makers)}

\* lines 385-390: the possible values of final_df
FinalDf(growth, mode, makers) ==
    IF mode = "Top 5 Growth Companies"
    THEN {Head5(sorted) : sorted \in SortValuesDescending(growth)}
    ELSE SortValuesDescending(SelectSeq(growth, LAMBDA r : Str(r.Maker) \in makers))

(***************************************************************************)
(* The download                                                            *)
(***************************************************************************)
\* a record with all the columns of the frame; line 75 adds Quarter, the
\* label "Q"+n in dashboard.py and the quarterly period in dashboard2.py
AllColumnsRow(v, r) ==
    [Maker |-> r.Maker, year |-> r.year, month |-> r.month,
     Category |-> r.Category, Registrations |-> r.Registrations,
     Date |-> r.Date, QuarterValue |-> r.QuarterValue,
     Quarter |-> IF v = 1 THEN QuarterLabel(r) ELSE PeriodOf(r)]

\* drop(columns=['Date', 'QuarterValue'], errors='ignore')
DropDateColumns(row) ==
    [c \in DOMAIN row \ {"Date", "QuarterValue"} |-> row[c]]

\* dashboard.py lines 238-239 drop the two columns; dashboard2.py line 255
\* converts filtered_data as it is
Download(v, fd) ==
    [j \in 1..Len(fd) |->
        IF v = 1 THEN DropDateColumns(AllColumnsRow(v, fd[j]))
        ELSE AllColumnsRow(v, fd[j])]

(***************************************************************************)
(* State                                                                   *)
(***************************************************************************)
VARIABLES
    pc,                     \* "walk", "returned", "raised", "done", "script_raised"
    exc,                    \* the exception that ended the function or the script
    root_readable,          \* whether os.walk can list the root
    visited,                \* the files os.walk has enumerated so far
    found_files_log,
    all_data,
    messages,               \* st.warning / st.error shown by the discovery loop
    data,                   \* the value load_and_prepare_data returned
    variant,                \* 1: dashboard.py, 2: dashboard2.py
    analysis_type,
    selected_years,
    selected_month_number,
    selected_quarter_number,
    selected_categories,
    selected_manufacturers,
    filtered_data,
    view,                   \* what the page shows
    metrics,
    n_largest,              \* the n of the rankings
    top_manufacturers,      \* line 139: the default of the manufacturer widget
    manufacturer_share,     \* lines 279-281: the rows of the market-share chart
    yoy_year,               \* dashboard.py line 350; 0 for None
    yoy_quarter,            \* dashboard.py line 355: 1..4 for "Q1".."Q4"
    yoy_view_type,
    growth_df,
    final_df,
    df_for_download         \* the frame handed to convert_df_to_csv

loader_vars == <<root_readable, visited, found_files_log, all_data, messages, data>>
script_vars == <<variant, analysis_type, selected_years, selected_month_number,
                 selected_quarter_number, selected_categories,
                 selected_manufacturers, filtered_data, view, metrics>>
yoy_vars == <<yoy_year, yoy_quarter, yoy_view_type, growth_df, final_df>>
page_vars == <<n_largest, top_manufacturers, manufacturer_share, yoy_vars, df_for_download>>
vars == <<pc, exc, loader_vars, script_vars, page_vars>>

PageInit ==
    /\ n_largest = 0
    /\ top_manufacturers = <<>>
    /\ manufacturer_share = <<>>
    /\ yoy_year = 0
    /\ yoy_quarter = 0
    /\ yoy_view_type = "none"
    /\ growth_df = <<>>
    /\ final_df = <<>>
    /\ df_for_download = <<>>

Init ==
    /\ pc = "walk"
    /\ exc = "none"
    /\ root_readable \in BOOLEAN
    /\ visited = {}
    /\ found_files_log = <<>>
    /\ all_data = <<>>
    /\ messages = <<>>
    /\ data = <<>>
    /\ variant = 0
    /\ analysis_type = "none"
    /\ selected_years = <<0, 0>>
    /\ selected_month_number = 0
    /\ selected_quarter_number = 0
    /\ selected_categories = {}
    /\ selected_manufacturers = {}
    /\ filtered_data = <<>>
    /\ view = "none"
    /\ metrics = NoMetrics
    /\ PageInit

(***************************************************************************)
(* load_and_prepare_data                                                   *)
(***************************************************************************)
\* One iteration of `for file in files` (lines 33-48).  os.walk swallows the
\* error of an unreadable directory, so an unreadable root enumerates nothing.
Visit(universe, contents) ==
    /\ pc = "walk"
    /\ root_readable
    /\ Cardinality(visited) < MaxFiles
    /\ \E f \in universe \ visited :
        \E c \in contents :
            LET out == ProcessFile(f, c)
            IN  /\ visited' = visited \cup {f}
                /\ found_files_log' = IF out.logged THEN Append(found_files_log, f)
                                      ELSE found_files_log
                /\ all_data' = all_data \o out.frames
                /\ messages' = messages \o out.msgs
    /\ UNCHANGED <<pc, exc, root_readable, data, script_vars, page_vars>>

VisitFile == Visit(Universe, Contents)

\* Lines 53-78, after the walk: the empty return, or concat, melt, filter and
\* the derived columns; an exception of melt or of the comparison propagates.
\* The locals of the scan are gone once the function has returned or raised.
FinishLoad ==
    /\ pc = "walk"
    /\ LET res == LoadResult(all_data)
       IN  /\ pc' = res.pc
           /\ exc' = res.exc
           /\ data' = res.data
    /\ visited' = {}
    /\ found_files_log' = <<>>
    /\ messages' = <<>>
    /\ UNCHANGED <<root_readable, all_data, script_vars, page_vars>>

(***************************************************************************)
(* Main script                                                             *)
(***************************************************************************)
\* lines 93-94: data.empty
ScriptNoData ==
    /\ pc = "returned"
    /\ data = <<>>
    /\ pc' = "done"
    /\ view' = "no_data_loaded"
    /\ \E v \in {1, 2} : variant' = v
    /\ UNCHANGED <<exc, loader_vars, analysis_type, selected_years,
                   selected_month_number, selected_quarter_number,
                   selected_categories, selected_manufacturers, filtered_data,
                   metrics, page_vars>>

\* line 138 (142): the sidebar cannot sort manufacturers that mix NaN and str
ScriptSidebarRaises ==
    /\ pc = "returned"
    /\ data # <<>>
    /\ SortMakersRaises(data)
    /\ pc' = "script_raised"
    /\ exc' = "TypeError"
    /\ \E v \in {1, 2} : variant' = v
    /\ UNCHANGED <<loader_vars, analysis_type, selected_years,
                   selected_month_number, selected_quarter_number,
                   selected_categories, selected_manufacturers, filtered_data,
                   view, metrics, page_vars>>

\* What the page shows below the key metrics (lines 236-411), for a
\* non-empty filtered_data fd.
PageBody(v, fd, cats, makers, yy, yq, mode) ==
    /\ df_for_download' = Download(v, fd)
    /\ manufacturer_share' = NLargest(GroupBySum(fd), TopN)
    /\ IF v = 1
       THEN /\ yoy_year' = yy
            /\ yoy_quarter' = yq
            /\ yoy_view_type' = mode
            /\ IF yy # 0
               THEN /\ growth_df' = GrowthDf(data, yy, yq, cats)
                    /\ final_df' \in FinalDf(GrowthDf(data, yy, yq, cats), mode, makers)
               ELSE UNCHANGED <<growth_df, final_df>>
       ELSE UNCHANGED yoy_vars

\* the widgets of the YoY comparison as the page first shows them: the latest
\* year that has a previous year, "Q1", "Top 5 Growth Companies"
DefaultYoYYear == IF AvailableYearsForYoY(data) = {} THEN 0 ELSE Max(AvailableYearsForYoY(data))

\* The rest of the script for one choice of the sidebar widgets: the default
\* manufacturers (line 139), the filter (lines 148-159), then either the
\* warning or the key metrics and the page below them.
RenderWith(v, type, years, month, quarter, cats, makers, yy, yq, mode) ==
    LET fd == FilteredData(data, v, type, years, month, quarter, cats, makers)
    IN  /\ pc = "returned"
        /\ data # <<>>
        /\ ~SortMakersRaises(data)
        /\ pc' = "done"
        /\ variant' = v
        /\ analysis_type' = type
        /\ selected_years' = years
        /\ selected_month_number' = month
        /\ selected_quarter_number' = quarter
        /\ selected_categories' = cats
        /\ selected_manufacturers' = makers
        /\ filtered_data' = fd
        /\ n_largest' = TopN
        /\ top_manufacturers' = IndexList(NLargest(GroupBySum(data), TopN))
        /\ IF fd = <<>>
           THEN /\ view' = "no_data_for_filters"
                /\ metrics' = metrics
                /\ UNCHANGED <<manufacturer_share, yoy_vars, df_for_download>>
           ELSE /\ view' = "metrics"
                /\ metrics' = KeyMetrics(data, fd, v, type, years, month, quarter,
                                         cats, makers)
                /\ PageBody(v, fd, cats, makers, yy, yq, mode)
        /\ UNCHANGED <<exc, loader_vars>>

\* the script with the YoY widgets left as they are first shown
Render(v, type, years, month, quarter, cats, makers) ==
    RenderWith(v, type, years, month, quarter, cats, makers,
               DefaultYoYYear, 1, "Top 5 Growth Companies")

\* lines 104-111
ScriptMonthly ==
    \E v \in {1, 2}, month \in SelectableMonths, year \in Years(data),
       cats \in SUBSET Categories(data), makers \in SUBSET Makers(data) :
        Render(v, "Monthly", <<year, year>>, month, 0, cats, makers)

\* lines 113-116 of dashboard.py (no quarter widget), 113-120 of dashboard2.py
ScriptQuarterly ==
    \E v \in {1, 2}, quarter \in 0..4, year \in Years(data),
       cats \in SUBSET Categories(data), makers \in SUBSET Makers(data) :
        /\ (v = 1) <=> (quarter = 0)
        /\ Render(v, "Quarterly", <<year, year>>, 0, quarter, cats, makers)

\* lines 118-129 (122-133): the slider offers every lo <= hi within the data
ScriptOverall ==
    \E v \in {1, 2}, lo \in Years(data), hi \in Years(data),
       cats \in SUBSET Categories(data), makers \in SUBSET Makers(data) :
        /\ lo <= hi
        /\ Render(v, "Overall Trend", <<lo, hi>>, 0, 0, cats, makers)

Next ==
    \/ VisitFile
    \/ FinishLoad
    \/ ScriptNoData
    \/ ScriptSidebarRaises
    \/ ScriptMonthly
    \/ ScriptQuarterly
    \/ ScriptOverall

Spec == Init /\ [][Next]_vars

(***************************************************************************)
(* dashboard.py with the granularity and the year range left as they are   *)
(* first shown (Overall Trend, the whole range) and the widgets of the YoY *)
(* comparison operated.                                                    *)
(***************************************************************************)
ScriptYoY ==
    \E cats \in SUBSET Categories(data), makers \in SUBSET Makers(data),
       yy \in AvailableYearsForYoY(data) \cup {0}, yq \in 1..4,
       mode \in {"Top 5 Growth Companies", "Selected Companies"} :
        /\ (yy = 0) <=> (AvailableYearsForYoY(data) = {})
        /\ RenderWith(1, "Overall Trend", <<Min(Years(data)), Max(Years(data))>>,
                      0, 0, cats, makers, yy, yq, mode)

NextYoY ==
    \/ VisitFile
    \/ FinishLoad
    \/ ScriptNoData
    \/ ScriptSidebarRaises
    \/ ScriptYoY

SpecYoY == Init /\ [][NextYoY]_vars

(***************************************************************************)
(* The loader on trees with a file for every month of two years            *)
(***************************************************************************)
MonthUniverse ==
    { File("a", <<y>>, <<y, "-", MonthAbbr[m], ".csv">>) :
          y \in DigitTokens, m \in 1..12 }

MonthContents ==
    { Content(TRUE, TRUE, AllColumns, <<Row(Str("X"), Num(2), Num(0), Num(1))>>),
      Content(TRUE, TRUE, AllColumns, <<Row(Str("X"), Num(1), Num(1), Num(0)),
                                        Row(Str("Y"), Num(3), Num(-1), Num(0))>>) }

VisitMonthFile == Visit(MonthUniverse, MonthContents)

NextMonths ==
    \/ VisitMonthFile
    \/ FinishLoad

SpecMonths == Init /\ [][NextMonths]_vars

(***************************************************************************)
(* The ranking on its own: group by manufacturer, sum, n largest, applied  *)
(* to a table of rows and applied again after two rows changed places.     *)
(***************************************************************************)
RankedRecord(m, n) ==
    [Maker |-> Str(m), year |-> 2023, month |-> 1, Category |-> "2W",
     Registrations |-> n, Date |-> [year |-> 2023, month |-> 1, day |-> 1],
     QuarterValue |-> 1]

RankedTables ==
    UNION {[1..k -> {RankedRecord(m, n) : m \in {"A", "B", "C"}, n \in {1, 2}}] :
              k \in 0..MaxRows}

InitTop ==
    /\ pc = "rank"
    /\ exc = "none"
    /\ root_readable = TRUE
    /\ visited = {}
    /\ found_files_log = <<>>
    /\ all_data = <<>>
    /\ messages = <<>>
    /\ data \in RankedTables
    /\ variant = 1
    /\ analysis_type = "none"
    /\ selected_years = <<0, 0>>
    /\ selected_month_number = 0
    /\ selected_quarter_number = 0
    /\ selected_categories = {}
    /\ selected_manufacturers = {}
    /\ filtered_data = data
    /\ view = "none"
    /\ metrics = NoMetrics
    /\ n_largest \in 1..MaxN
    /\ top_manufacturers = <<>>
    /\ manufacturer_share = <<>>
    /\ yoy_year = 0
    /\ yoy_quarter = 0
    /\ yoy_view_type = "none"
    /\ growth_df = <<>>
    /\ final_df = <<>>
    /\ df_for_download = <<>>

\* lines 139 and 279-281 with n_largest for 10
RankTable ==
    /\ pc = "rank"
    /\ pc' = "ranked"
    /\ top_manufacturers' = IndexList(NLargest(GroupBySum(data), n_largest))
    /\ manufacturer_share' = NLargest(GroupBySum(filtered_data), n_largest)
    /\ UNCHANGED <<exc, loader_vars, script_vars, n_largest, yoy_vars, df_for_download>>

\* the same ranking of the same rows in another order
ReorderRows ==
    /\ pc = "ranked"
    /\ \E i \in 1..(Len(data) - 1) :
          LET swapped == [data EXCEPT ![i] = data[i + 1], ![i + 1] = data[i]]
          IN  /\ data' = swapped
              /\ filtered_data' = swapped
              /\ top_manufacturers' = IndexList(NLargest(GroupBySum(swapped), n_largest))
              /\ manufacturer_share' = NLargest(GroupBySum(swapped), n_largest)
    /\ UNCHANGED <<pc, exc, root_readable, visited, found_files_log, all_data,
                   messages, variant, analysis_type, selected_years,
                   selected_month_number, selected_quarter_number,
                   selected_categories, selected_manufacturers, view, metrics,
                   n_largest, yoy_vars, df_for_download>>

NextTop ==
    \/ RankTable
    \/ ReorderRows

SpecTop == InitTop /\ [][NextTop]_vars

(***************************************************************************)
(* Properties                                                              *)
(***************************************************************************)
Returned == pc \in {"returned", "done", "script_raised"}

\* the number of positions of seq whose element satisfies Test
CountIn(seq, Test(_)) == Cardinality({j \in 1..Len(seq) : Test(seq[j])})

\* C1: each (manufacturer, category, year, month) tuple occurs in at most one
\* record of the returned dataset.
C1_Uniqueness ==
    Returned =>
        \A i, j \in 1..Len(data) :
            (/\ data[i].Maker = data[j].Maker
             /\ data[i].Category = data[j].Category
             /\ data[i].year = data[j].year
             /\ data[i].month = data[j].month) => i = j

\* The loaded wide cells: frame i, row j, category column c.
WideCells ==
    UNION {{<<i, j, c>> : j \in 1..Len(all_data[i].rows), c \in {"2W", "3W", "4W"}} :
              i \in 1..Len(all_data)}

CellCount(t) == all_data[t[1]].rows[t[2]][t[3]]

\* the fields a wide cell gives its record
SameTuple(r, t) ==
    /\ r.Maker = all_data[t[1]].rows[t[2]]["Maker"]
    /\ r.year = all_data[t[1]].year
    /\ r.month = all_data[t[1]].month
    /\ r.Category = t[3]
    /\ r.Registrations = CellCount(t).n

PositiveCells == {t \in WideCells : CellCount(t).k = "num" /\ CellCount(t).n > 0}

\* C2: every record of the returned dataset has registrations > 0, and a
\* record is emitted for a loaded wide row and a category column if and only
\* if that count is strictly positive (as many records with the fields of a
\* cell as there are strictly positive cells with those fields).
C2_PositiveRegistrations ==
    Returned =>
        /\ \A j \in 1..Len(data) : data[j].Registrations > 0
        /\ Len(data) = Cardinality(PositiveCells)
        /\ \A t \in PositiveCells :
              CountIn(data, LAMBDA r : SameTuple(r, t))
                  = Cardinality({u \in PositiveCells :
                        /\ all_data[u[1]].rows[u[2]]["Maker"]
                              = all_data[t[1]].rows[t[2]]["Maker"]
                        /\ all_data[u[1]].year = all_data[t[1]].year
                        /\ all_data[u[1]].month = all_data[t[1]].month
                        /\ u[3] = t[3]
                        /\ CellCount(u).n = CellCount(t).n})

\* a returned dataset built from a row with a zero count: two of its three
\* cells are emitted
C2_Witness ==
    /\ pc = "returned"
    /\ Len(all_data) = 1
    /\ all_data[1].rows = <<Row(Str("X"), Num(2), Num(0), Num(1))>>
    /\ Len(data) = 2

\* the records that match the selected categories and manufacturers
Matching(r) ==
    r.Category \in selected_categories /\ r.Maker \in selected_manufacturers

\* the quarter of a month, as the specification derives it
CeilQuarter(month) == (month + 2) \div 3

RECURSIVE TotalOf(_, _)
\* the sum of registrations over the positions of df in the set js
TotalOf(df, js) ==
    IF js = {} THEN 0
    ELSE LET j == CHOOSE x \in js : TRUE
         IN  df[j].Registrations + TotalOf(df, js \ {j})

MonthTotal(year, month) ==
    TotalOf(data, {j \in 1..Len(data) :
        Matching(data[j]) /\ data[j].year = year /\ data[j].month = month})

QuarterTotal(year, quarter) ==
    TotalOf(data, {j \in 1..Len(data) :
        Matching(data[j]) /\ data[j].year = year
            /\ CeilQuarter(data[j].month) = quarter})

HasComparison ==
    /\ pc = "done"
    /\ view = "metrics"
    /\ ~(variant = 1 /\ analysis_type = "Quarterly")

\* the (year, quarter) of the current period of the Quarterly and Overall
\* Trend granularities
CurrentQuarter ==
    IF analysis_type = "Quarterly"
    THEN <<selected_years[1], selected_quarter_number>>
    ELSE <<metrics.latest_quarter_period \div 4, (metrics.latest_quarter_period % 4) + 1>>

\* C3: in every granularity the prior-period total and the prior-year total
\* are the sums over all records of the full dataset that fall in the
\* comparison period and match the selected categories and manufacturers,
\* whatever the selected year range.
C3_PriorFromFullDataset ==
    HasComparison =>
        IF analysis_type = "Monthly"
        THEN /\ metrics.prior =
                    IF selected_month_number = 1
                    THEN MonthTotal(selected_years[1] - 1, 12)
                    ELSE MonthTotal(selected_years[1], selected_month_number - 1)
             /\ metrics.prior_year = MonthTotal(selected_years[1] - 1, selected_month_number)
        ELSE /\ metrics.prior =
                    IF CurrentQuarter[2] = 1
                    THEN QuarterTotal(CurrentQuarter[1] - 1, 4)
                    ELSE QuarterTotal(CurrentQuarter[1], CurrentQuarter[2] - 1)
             /\ metrics.prior_year = QuarterTotal(CurrentQuarter[1] - 1, CurrentQuarter[2])

GrowthIs(g, current, prior) ==
    /\ g.den # 0
    /\ prior # 0 => g.num * prior = (current - prior) * 100 * g.den
    /\ prior = 0 => g.num = 0

\* C4: every growth percentage of the key metrics is (current - prior) /
\* prior * 100 when the prior total is non-zero and exactly 0 when it is 0;
\* it is never infinite or NaN.
C4_GrowthZeroBase ==
    (pc = "done" /\ view = "metrics") =>
        /\ GrowthIs(metrics.growth, metrics.current, metrics.prior)
        /\ GrowthIs(metrics.yoy_growth, metrics.current, metrics.prior_year)
        /\ metrics.intra_year_growth.den # 0

\* metrics with a zero prior period and a non-zero prior year
C4_Witness ==
    /\ pc = "done"
    /\ view = "metrics"
    /\ metrics.current > 0
    /\ metrics.prior = 0
    /\ metrics.prior_year > 0

\* <digits>-<3 letters>.csv
HasForm(name) ==
    /\ Len(name) = 4
    /\ name[1] \in DigitTokens
    /\ name[2] = "-"
    /\ name[3] \in ThreeLetterTokens
    /\ name[4] = ".csv"

\* C5: a file whose name is not <digits>-<3 letters>.csv, or whose parent
\* folder differs from the year in its name, contributes no rows; what the
\* other files contributed stays, and a file with a valid name in its year's
\* folder either contributes its frame or is reported as unusable.
C5_DiscoveryFilter ==
    [][\A f \in visited' \ visited :
          /\ Len(all_data') >= Len(all_data)
          /\ SubSeq(all_data', 1, Len(all_data)) = all_data
          /\ (~HasForm(f.name) \/ f.dir # <<f.name[1]>>) => all_data' = all_data
          /\ (HasForm(f.name) /\ f.dir = <<f.name[1]>>) =>
                \/ /\ Len(all_data') = Len(all_data) + 1
                   /\ all_data'[Len(all_data')].year = DigitValue(f.name[1])
                   /\ \E c \in Contents :
                        /\ c.readable /\ c.parse
                        /\ all_data'[Len(all_data')].rows = c.rows
                \/ /\ all_data' = all_data
                   /\ Len(messages') = Len(messages) + 1
       ]_vars

\* C6: every candidate file that the discovery loop rejects produces a
\* per-file message, also when the rejection is a folder/year mismatch.
C6_RejectionWarned ==
    [][\A f \in visited' \ visited :
          (IsCandidate(f.name) /\ all_data' = all_data)
              => Len(messages') = Len(messages) + 1]_vars

\* C7: load_and_prepare_data never terminates with an exception.
C7_NeverRaises == pc # "raised"

\* C8: no record of the returned dataset has a missing or empty manufacturer.
C8_ManufacturerPresent ==
    Returned =>
        \A j \in 1..Len(data) : data[j].Maker.k = "str" /\ data[j].Maker.s # ""

\* C9: when no file was loaded the function returns the empty dataset without
\* raising, and the script shows the no-data state and computes nothing.
C9_EmptyLoad ==
    (pc # "walk" /\ all_data = <<>>) =>
        /\ pc \in {"returned", "done"}
        /\ exc = "none"
        /\ data = <<>>
        /\ pc = "done" =>
              /\ view = "no_data_loaded"
              /\ analysis_type = "none"
              /\ filtered_data = <<>>
              /\ metrics = NoMetrics

\* the script has run on a load that accepted no file
C9_Witness ==
    /\ pc = "done"
    /\ all_data = <<>>
    /\ view = "no_data_loaded"

\* the filter condition of the specification on one record
Selected(r) ==
    /\ r.year >= selected_years[1]
    /\ r.year <= selected_years[2]
    /\ Matching(r)
    /\ analysis_type = "Monthly" => r.month = selected_month_number
    /\ (analysis_type = "Quarterly" /\ selected_quarter_number # 0)
          => CeilQuarter(r.month) = selected_quarter_number

\* C10: a record is in the filtered subset if and only if its year is in the
\* inclusive range, its category and manufacturer are selected and its month
\* or quarter equals the pinned one; an empty subset is reported as no data
\* and no metric is computed on it.
C10_FilterExact ==
    (pc = "done" /\ view # "no_data_loaded") =>
        /\ \A j \in 1..Len(data) :
              CountIn(filtered_data, LAMBDA r : r = data[j])
                  = IF Selected(data[j])
                    THEN CountIn(data, LAMBDA r : r = data[j])
                    ELSE 0
        /\ \A j \in 1..Len(filtered_data) :
              \E i \in 1..Len(data) : data[i] = filtered_data[j]
        /\ filtered_data = <<>> => (view = "no_data_for_filters" /\ metrics = NoMetrics)
        /\ filtered_data # <<>> => view = "metrics"

\* a pinned quarter that keeps some records of the selected year and drops others
C10_Witness ==
    /\ pc = "done"
    /\ variant = 2
    /\ analysis_type = "Quarterly"
    /\ filtered_data # <<>>
    /\ \E j \in 1..Len(data) :
          /\ data[j].year = selected_years[1]
          /\ Matching(data[j])
          /\ CeilQuarter(data[j].month) # selected_quarter_number

\* the total of a manufacturer over the ranked rows, whatever their order
MakerTotal(name) ==
    TotalOf(filtered_data, {j \in 1..Len(filtered_data) :
                               filtered_data[j].Maker = Str(name)})

\* manufacturer a ranks before manufacturer b: larger total, or equal total
\* and smaller name
RanksBefore(a, b) ==
    \/ MakerTotal(a) > MakerTotal(b)
    \/ MakerTotal(a) = MakerTotal(b) /\ NameRank(a) < NameRank(b)

Ranked == {manufacturer_share[i].Maker : i \in 1..Len(manufacturer_share)}

\* C11: the top-manufacturers result holds each manufacturer's total, is
\* ordered by total descending and by name ascending among equal totals,
\* keeps the n first of that order (also among tied manufacturers at the
\* cut), and is the same after the input rows are permuted.
C11_TopNDeterministic ==
    /\ [](pc \in {"ranked", "done"} /\ (pc = "done" => view = "metrics") =>
            /\ \A i \in 1..Len(manufacturer_share) :
                  /\ manufacturer_share[i].Maker \in MakerNames(filtered_data)
                  /\ manufacturer_share[i].Registrations
                        = MakerTotal(manufacturer_share[i].Maker)
            /\ \A i, j \in 1..Len(manufacturer_share) :
                  i < j => RanksBefore(manufacturer_share[i].Maker,
                                       manufacturer_share[j].Maker)
            /\ \/ Ranked = MakerNames(filtered_data)
               \/ /\ Len(manufacturer_share) = n_largest
                  /\ \A m \in MakerNames(filtered_data) \ Ranked :
                        \A r \in Ranked : RanksBefore(r, m))
    /\ [][(pc = "ranked" /\ pc' = "ranked") =>
            /\ manufacturer_share' = manufacturer_share
            /\ top_manufacturers' = top_manufacturers]_vars

\* three manufacturers with equal totals of which the ranking keeps two,
\* the rows not being in the order of the names
C11_Witness ==
    /\ pc = "ranked"
    /\ n_largest = 2
    /\ Len(filtered_data) = 3
    /\ filtered_data[1].Maker = Str("C")
    /\ MakerTotal("A") = MakerTotal("B")
    /\ MakerTotal("B") = MakerTotal("C")
    /\ MakerTotal("C") > 0
    /\ Len(manufacturer_share) = 2


(***************************************************************************)
(* C12                                                                     *)
(***************************************************************************)
\* the manufacturer's registrations in the compared quarter of a year, summed
\* over the records of the dataset in the selected categories
YoYTotal(name, year) ==
    TotalOf(data, {j \in 1..Len(data) :
        /\ data[j].Maker = Str(name)
        /\ data[j].Category \in selected_categories
        /\ data[j].year = year
        /\ CeilQuarter(data[j].month) = yoy_quarter})

YoYShown == pc = "done" /\ view = "metrics" /\ variant = 1 /\ yoy_year # 0

\* C12: the YoY table has exactly one row for every manufacturer with
\* registrations in either compared quarter, a side without registrations
\* being 0; the growth is exactly 0 when the previous-year total is 0 and
\* (current - previous) / previous * 100 otherwise, never infinite or NaN.
C12_YoYZeroBase ==
    YoYShown =>
        /\ \A name \in MakerNames(data) :
              (YoYTotal(name, yoy_year) + YoYTotal(name, yoy_year - 1) > 0) =>
                  \E i \in 1..Len(growth_df) :
                      /\ growth_df[i].Maker = name
                      /\ growth_df[i].PreviousSales = YoYTotal(name, yoy_year - 1)
                      /\ growth_df[i].CurrentSales = YoYTotal(name, yoy_year)
        /\ \A i \in 1..Len(growth_df) :
              /\ growth_df[i].PreviousSales + growth_df[i].CurrentSales > 0
              /\ GrowthIs(growth_df[i].YoY_Growth, growth_df[i].CurrentSales,
                          growth_df[i].PreviousSales)
              /\ \A j \in 1..Len(growth_df) :
                    growth_df[j].Maker = growth_df[i].Maker => j = i

\* a manufacturer registered in the current quarter only, next to one
\* registered in both
C12_Witness ==
    /\ YoYShown
    /\ \E i, j \in 1..Len(growth_df) :
          /\ growth_df[i].PreviousSales = 0
          /\ growth_df[i].CurrentSales > 0
          /\ growth_df[i].YoY_Growth = Zero
          /\ growth_df[j].PreviousSales > 0
          /\ growth_df[j].YoY_Growth.num # 0


(***************************************************************************)
(* C13                                                                     *)
(***************************************************************************)
\* the rows of the YoY table of the selected manufacturers, in table order
SelectedGrowthRows ==
    SelectSeq(growth_df, LAMBDA r : Str(r.Maker) \in selected_manufacturers)

\* final_df is ordered by growth, largest first
GrowthDescending ==
    \A i, j \in 1..Len(final_df) :
        i < j => FracGE(final_df[i].YoY_Growth, final_df[j].YoY_Growth)

RowsOf(seq) == {seq[i] : i \in 1..Len(seq)}

\* top-growth mode: the rows of largest growth among all manufacturers of the
\* YoY table, at most HeadRows of them, largest first
TopGrowthRanking ==
    /\ GrowthDescending
    /\ RowsOf(final_df) \subseteq RowsOf(growth_df)
    /\ Len(final_df) = IF Len(growth_df) < HeadRows THEN Len(growth_df) ELSE HeadRows
    /\ Cardinality(RowsOf(final_df)) = Len(final_df)
    /\ \A r \in RowsOf(growth_df) \ RowsOf(final_df) :
          \A t \in RowsOf(final_df) : FracGE(t.YoY_Growth, r.YoY_Growth)

\* C13 as stated: top-growth mode ranks all manufacturers by growth
\* descending; selected-companies mode holds the selected manufacturers only,
\* left in the order of the filtered table, not re-sorted by growth.
C13_SelectedLeftInOrder ==
    YoYShown =>
        IF yoy_view_type = "Top 5 Growth Companies"
        THEN TopGrowthRanking
        ELSE final_df = SelectedGrowthRows

\* C13 (amended): top-growth mode ranks all manufacturers of the YoY table by
\* growth descending, whatever the manufacturer filter; selected-companies
\* mode holds exactly the rows of the selected manufacturers and is ordered
\* by growth descending as well.
C13_RankingOrder ==
    YoYShown =>
        IF yoy_view_type = "Top 5 Growth Companies"
        THEN TopGrowthRanking
        ELSE /\ GrowthDescending
             /\ RowsOf(final_df) = RowsOf(SelectedGrowthRows)
             /\ Len(final_df) = Len(SelectedGrowthRows)

\* selected-companies mode with two selected manufacturers whose growth
\* order is the reverse of their order in the table
C13_Witness ==
    /\ YoYShown
    /\ yoy_view_type = "Selected Companies"
    /\ Len(final_df) = 2
    /\ Len(SelectedGrowthRows) = 2
    /\ final_df[1] = SelectedGrowthRows[2]
    /\ ~FracGE(final_df[2].YoY_Growth, final_df[1].YoY_Growth)


(***************************************************************************)
(* C14                                                                     *)
(***************************************************************************)
ExportColumns == {"Maker", "year", "month", "Category", "Registrations"}

\* C14: in either dashboard the download holds exactly the rows of the
\* filtered subset, in their order, and has neither the Date nor the
\* QuarterValue column.
C14_ExportWithoutDerived ==
    (pc = "done" /\ view = "metrics") =>
        /\ Len(df_for_download) = Len(filtered_data)
        /\ \A j \in 1..Len(df_for_download) :
              /\ \A c \in ExportColumns : df_for_download[j][c] = filtered_data[j][c]
              /\ "Date" \notin DOMAIN df_for_download[j]
              /\ "QuarterValue" \notin DOMAIN df_for_download[j]


(***************************************************************************)
(* C15                                                                     *)
(***************************************************************************)
\* the quarter of each month: 1-3, 4-6, 7-9, 10-12
QuarterTable == <<1, 1, 1, 2, 2, 2, 3, 3, 3, 4, 4, 4>>

\* C15: every record of the returned dataset has the quarter ceil(month / 3)
\* of its month (months 1-3 quarter 1, ..., 10-12 quarter 4) and the first
\* day of its (year, month) as its date.
C15_QuarterDerivation ==
    Returned =>
        \A j \in 1..Len(data) :
            /\ data[j].month \in 1..12
            /\ data[j].QuarterValue = QuarterTable[data[j].month]
            /\ 3 * (data[j].QuarterValue - 1) < data[j].month
            /\ data[j].month <= 3 * data[j].QuarterValue
            /\ data[j].Date = [year |-> data[j].year, month |-> data[j].month,
                               day |-> 1]

\* a dataset with a record of the last month of a quarter and one of the
\* first month of another
C15_Witness ==
    /\ pc = "returned"
    /\ \E i, j \in 1..Len(data) :
          /\ data[i].month = 6 /\ data[i].QuarterValue = 2
          /\ data[j].month = 10 /\ data[j].QuarterValue = 4
          /\ data[j].year = 2024


(***************************************************************************)
(* C16                                                                     *)
(***************************************************************************)
\* the filter of the sidebar selection, applied to a frame
FilterAgain(df) ==
    FilteredData(df, variant, analysis_type, selected_years,
                 selected_month_number, selected_quarter_number,
                 selected_categories, selected_manufacturers)

\* C16: filtering the filtered subset again with the same selection (year
\* range, categories, manufacturers, pinned month or quarter) returns the
\* same subset.
C16_FilterIdempotent ==
    (pc = "done" /\ view \in {"metrics", "no_data_for_filters"}) =>
        FilterAgain(filtered_data) = filtered_data

\* a selection with a pinned quarter that keeps some records and drops others
C16_Witness ==
    /\ pc = "done"
    /\ variant = 2
    /\ analysis_type = "Quarterly"
    /\ Len(filtered_data) >= 2
    /\ Len(filtered_data) < Len(data)
    /\ \E j \in 1..Len(data) : data[j].QuarterValue # selected_quarter_number
    /\ \E j \in 1..Len(data) : data[j].Maker \notin selected_manufacturers


(***************************************************************************)
(* C17                                                                     *)
(***************************************************************************)
\* one unit back from (year, unit) in a year of n units, with carry
OneBack(year, unit, n) ==
    IF unit = 1 THEN [year |-> year - 1, unit |-> n]
    ELSE [year |-> year, unit |-> unit - 1]

\* the latest (year, quarter) with a record in the filtered subset
LatestFilteredQuarter ==
    LET pairs == {<<filtered_data[j].year, CeilQuarter(filtered_data[j].month)>> :
                     j \in 1..Len(filtered_data)}
    IN  CHOOSE a \in pairs : \A b \in pairs :
            \/ a[1] > b[1]
            \/ a[1] = b[1] /\ a[2] >= b[2]

\* the comparison periods are those of the current period (year, unit)
ComparesWith(year, unit, n) ==
    /\ metrics.prior_period = OneBack(year, unit, n)
    /\ metrics.prior_year_period = [year |-> year - 1, unit |-> unit]

HasPriorPeriod ==
    /\ pc = "done"
    /\ view = "metrics"
    /\ ~(variant = 1 /\ analysis_type = "Quarterly")

\* C17: the prior period is one unit back with carry over the year boundary
\* (the month before (year, 1) is (year - 1, 12), the quarter before
\* (year, Q1) is (year - 1, Q4)) and the prior-year period is the same month
\* or quarter of year - 1.
C17_ComparisonPeriods ==
    HasPriorPeriod =>
        CASE analysis_type = "Monthly" ->
                 ComparesWith(selected_years[1], selected_month_number, 12)
          [] analysis_type = "Quarterly" ->
                 ComparesWith(selected_years[1], selected_quarter_number, 4)
          [] OTHER ->
                 ComparesWith(LatestFilteredQuarter[1], LatestFilteredQuarter[2], 4)

\* January of a year whose previous December has records
C17_Witness ==
    /\ HasPriorPeriod
    /\ analysis_type = "Monthly"
    /\ selected_month_number = 1
    /\ metrics.prior_period = [year |-> selected_years[1] - 1, unit |-> 12]
    /\ metrics.prior > 0
    /\ metrics.current > 0

(***************************************************************************)
(* C18                                                                     *)
(***************************************************************************)
\* the registrations of the filtered subset in one (year, quarter)
FilteredQuarterTotal(year, quarter) ==
    TotalOf(filtered_data, {j \in 1..Len(filtered_data) :
        /\ filtered_data[j].year = year
        /\ CeilQuarter(filtered_data[j].month) = quarter})

OverallShown == pc = "done" /\ view = "metrics" /\ analysis_type = "Overall Trend"

\* C18: in Overall Trend the current period is the latest quarter with a
\* record in the filtered subset, and the current-quarter total, the sum of
\* the subset's records of that quarter, is strictly positive.
C18_LatestFilteredQuarter ==
    OverallShown =>
        /\ filtered_data # <<>>
        /\ metrics.latest_quarter_period =
               QuarterPeriod(LatestFilteredQuarter[1], LatestFilteredQuarter[2])
        /\ metrics.current =
               FilteredQuarterTotal(LatestFilteredQuarter[1], LatestFilteredQuarter[2])
        /\ metrics.current > 0

\* the filters leave out the latest quarter of the dataset
C18_Witness ==
    /\ OverallShown
    /\ \E j \in 1..Len(data) :
          \/ data[j].year > LatestFilteredQuarter[1]
          \/ /\ data[j].year = LatestFilteredQuarter[1]
             /\ CeilQuarter(data[j].month) > LatestFilteredQuarter[2]
    /\ Len(filtered_data) >= 2
    /\ metrics.current > 0
    /\ metrics.latest_quarter_period # LatestQuarterPeriod(data)

====
